---- MODULE Spec2Model ----
(***************************************************************************)
(* A model of mdx_grid.py: the grid marker preprocessor of the             *)
(* Python-Markdown grid extension.                                         *)
(*                                                                         *)
(* Text is modelled as a sequence of one-character strings, so that the    *)
(* regular expressions of class Patterns, str.split, str.join and the      *)
(* "%s" formatting are computed character by character.  Python values    *)
(* that may be None are records [t |-> "str" | "none" | "unset", s |-> _]. *)
(* Line numbers are Python's: zero-based keys of the three mappings.       *)
(***************************************************************************)
EXTENDS Integers, Sequences, FiniteSets, TLC

VARIABLES
    lines,      \* the document: the list run() receives and replace_markers writes
    doc,        \* history: the document as it was on entry
    run_no,     \* history: how many times run() has been called, this call included
    config,     \* GridPreprocessor.config: key -> <<value, description>>
    pc,         \* position in the call being modelled
    profile,    \* run(): profile = self.get_conf('name')
    style,      \* run(): style = self.get_conf('default_col_style')
    line_num,   \* parse_markers: the loop variable
    row_stack,  \* parse_markers: rows stack
    rows,       \* parse_markers: row marker line => [column CSS classes]
    cmds,       \* parse_markers: marker line => [grid commands]
    r2c,        \* parse_markers: row marker line => [column lines]
    exc,        \* the exception that ended the call, "none" when there is none
    arguments,  \* Parsers.parse_row_args: its first argument
    result      \* Parsers.parse_row_args: what the call produced

vars == <<lines, doc, run_no, config, pc, profile, style, line_num, row_stack,
          rows, cmds, r2c, exc, arguments, result>>

(***************************************************************************)
(* Bounds of the model.                                                    *)
(***************************************************************************)
MaxDocLines == 3
MaxStageLines == 4
MaxStyles == 3
MaxArgLen == 3
MaxRuns == 2

(***************************************************************************)
(* Python values.                                                          *)
(***************************************************************************)
PyStr(s) == [t |-> "str", s |-> s]
PyNone == [t |-> "none", s |-> <<>>]
NoAttr == [t |-> "unset", s |-> <<>>]

Max(S) == CHOOSE x \in S : \A y \in S : y <= x

\* A dict as a function; d[k] = v
DictSet(d, k, v) == [x \in (DOMAIN d) \cup {k} |-> IF x = k THEN v ELSE d[x]]
EmptyDict == [x \in {} |-> <<>>]

(***************************************************************************)
(* Characters and the regular expressions of class Patterns.               *)
(***************************************************************************)
UpperCase == <<"A","B","C","D","E","F","G","H","I","J","K","L","M",
               "N","O","P","Q","R","S","T","U","V","W","X","Y","Z">>
LowerCase == <<"a","b","c","d","e","f","g","h","i","j","k","l","m",
               "n","o","p","q","r","s","t","u","v","w","x","y","z">>
Range(f) == {f[i] : i \in DOMAIN f}

\* re.IGNORECASE: letters are compared in lower case
Lower(c) == IF \E i \in DOMAIN UpperCase : UpperCase[i] = c
            THEN LowerCase[CHOOSE i \in DOMAIN UpperCase : UpperCase[i] = c]
            ELSE c

\* \s and \d
WS == {" ", "\t", "\n"}
Digits == {"0","1","2","3","4","5","6","7","8","9"}

\* [a-z\d,-_\:\s] under IGNORECASE: the letters, the digits, the range from
\* ',' (0x2C) to '_' (0x5F), the colon and whitespace
ArgClass == Range(LowerCase) \cup Range(UpperCase) \cup Digits \cup WS \cup
            {",", "-", ".", "/", ":", ";", "<", "=", ">", "?", "@",
             "[", "\\", "]", "^", "_"}

\* The items of a pattern: a line anchor, a literal character, a starred class
Bol == [t |-> "bol", c |-> "", cls |-> {}]
Eol == [t |-> "eol", c |-> "", cls |-> {}]
Lit(c) == [t |-> "lit", c |-> c, cls |-> {}]
Star(cls) == [t |-> "star", c |-> "", cls |-> cls]

\* The positions (characters consumed) at which item it can end when it
\* starts at one of the positions P of text s; multi is re.MULTILINE
StepItem(it, s, P, multi) ==
    CASE it.t = "bol" ->
           {p \in P : p = 0 \/ (multi /\ s[p] = "\n")}
      [] it.t = "eol" ->
           {p \in P : \/ p = Len(s)
                      \/ (multi /\ s[p + 1] = "\n")
                      \/ (p = Len(s) - 1 /\ s[p + 1] = "\n")}
      [] it.t = "lit" ->
           {p + 1 : p \in {q \in P : q < Len(s) /\ Lower(s[q + 1]) = it.c}}
      [] it.t = "star" ->
           UNION {{q \in p..Len(s) : \A k \in (p + 1)..q : s[k] \in it.cls} :
                     p \in P}

RECURSIVE Ends(_, _, _, _)
Ends(re, s, P, multi) ==
    IF re = <<>> THEN P
    ELSE Ends(Tail(re), s, StepItem(Head(re), s, P, multi), multi)

\* pattern.match(s): a match starting at the first character
Matches(re, s, multi) == Ends(re, s, {0}, multi) # {}

\* ^\s*--\s*end\s*--\s*$
row_close_re == <<Bol, Star(WS), Lit("-"), Lit("-"), Star(WS),
                  Lit("e"), Lit("n"), Lit("d"), Star(WS),
                  Lit("-"), Lit("-"), Star(WS), Eol>>
\* ^\s*--\s*$
col_sep_re == <<Bol, Star(WS), Lit("-"), Lit("-"), Star(WS), Eol>>
\* ^\s*--\s*row\s*([a-z\d,-_\:\s]*)\s*--\s*$ : before, inside and after group 1
row_open_head == <<Bol, Star(WS), Lit("-"), Lit("-"), Star(WS),
                   Lit("r"), Lit("o"), Lit("w"), Star(WS)>>
row_open_tail == <<Star(WS), Lit("-"), Lit("-"), Star(WS), Eol>>

\* Where group 1 of row_open may start and end: every (a, q) such that the
\* head ends at a, the group takes a+1..q and the tail matches from q
RowOpenSpans(s) ==
    {aq \in Ends(row_open_head, s, {0}, TRUE) \X (0..Len(s)) :
        /\ aq[1] <= aq[2]
        /\ \A k \in (aq[1] + 1)..aq[2] : s[k] \in ArgClass
        /\ Ends(row_open_tail, s, {aq[2]}, TRUE) # {}}

\* Patterns.row_open.match(line): the quantifiers are greedy, so of all the
\* ways to match, the one found takes the longest \s* before the group and
\* then the longest group
row_open_match(s) ==
    LET spans == RowOpenSpans(s) IN
    IF spans = {} THEN [matched |-> FALSE, group1 |-> <<>>]
    ELSE LET a == Max({aq[1] : aq \in spans})
             q == Max({aq[2] : aq \in {x \in spans : x[1] = a}})
         IN [matched |-> TRUE, group1 |-> SubSeq(s, a + 1, q)]

row_close_match(s) == Matches(row_close_re, s, TRUE)
col_sep_match(s) == Matches(col_sep_re, s, TRUE)

\* The branch of parse_markers' if/elif chain a line takes
Classify(s) ==
    IF row_open_match(s).matched THEN "RowOpen"
    ELSE IF row_close_match(s) THEN "RowClose"
    ELSE IF col_sep_match(s) THEN "ColSep"
    ELSE "NotAMarker"

(***************************************************************************)
(* class GridConf and class Parsers.                                       *)
(***************************************************************************)
\* The attributes the class body of GridConf binds
GridConfAttrs == {"DEFAULT_PROFILE", "DESCRIPTIONS", "PROFILES", "get"}
DEFAULT_PROFILE == <<"b","o","o","t","s","t","r","a","p">>
DEFAULT_SEPARATOR == ","

\* What a call produced: a value, or the exception that ended it
Returned(v) == [exc |-> "none", val |-> v]
Raised(e) == [exc |-> e, val |-> <<>>]

\* str.split(sep): the pieces between the separators, empty ones kept
RECURSIVE SplitAcc(_, _, _)
SplitAcc(s, sep, cur) ==
    IF s = <<>> THEN <<cur>>
    ELSE IF Head(s) = sep THEN <<cur>> \o SplitAcc(Tail(s), sep, <<>>)
    ELSE SplitAcc(Tail(s), sep, Append(cur, Head(s)))
StrSplit(s, sep) == SplitAcc(s, sep, <<>>)

\* str.split(): the runs of non-whitespace characters
RECURSIVE WordsAcc(_, _)
WordsAcc(s, cur) ==
    IF s = <<>> THEN (IF cur = <<>> THEN <<>> ELSE <<cur>>)
    ELSE IF Head(s) \in WS
         THEN (IF cur = <<>> THEN <<>> ELSE <<cur>>) \o WordsAcc(Tail(s), <<>>)
    ELSE WordsAcc(Tail(s), Append(cur, Head(s)))
StrWords(s) == WordsAcc(s, <<>>)

\* sep.join(parts)
RECURSIVE StrJoin(_, _)
StrJoin(sep, parts) ==
    IF parts = <<>> THEN <<>>
    ELSE IF Len(parts) = 1 THEN Head(parts)
    ELSE Head(parts) \o sep \o StrJoin(sep, Tail(parts))

\* re_spnoff = ^\s*(\d+)(\s*\:\s*(\d+))?\s*$ compiled without flags: the
\* positions where group 1 ends and, with the optional part, where group 3
\* starts and ends
spnoff_lead == <<Bol, Star(WS)>>
spnoff_colon == <<Star(WS), Lit(":"), Star(WS)>>
spnoff_tail == <<Star(WS), Eol>>
DigitRun(s, a) == Max({q \in a..Len(s) : \A k \in (a + 1)..q : s[k] \in Digits})

re_spnoff_match(s) ==
    LET a == Max(Ends(spnoff_lead, s, {0}, FALSE))
        b == DigitRun(s, a)
        cs == Ends(spnoff_colon, s, {b}, FALSE)
        c == IF cs = {} THEN b ELSE Max(cs)
        d == DigitRun(s, c)
        no == [matched |-> FALSE, g1 |-> <<>>, g3 |-> PyNone]
    IN IF b = a THEN no
       ELSE IF cs # {} /\ d > c /\ Ends(spnoff_tail, s, {d}, FALSE) # {}
            THEN [matched |-> TRUE, g1 |-> SubSeq(s, a + 1, b),
                  g3 |-> PyStr(SubSeq(s, c + 1, d))]
       ELSE IF Ends(spnoff_tail, s, {b}, FALSE) # {}
            THEN [matched |-> TRUE, g1 |-> SubSeq(s, a + 1, b), g3 |-> PyNone]
       ELSE no

\* the nested function expand(matches) of expand_shortcuts
expand(m) ==
    <<"s","p","a","n">> \o m.g1 \o
    (IF m.g3.t = "str" /\ m.g3.s # <<>>
     THEN <<" ","o","f","f","s","e","t">> \o m.g3.s ELSE <<>>)

\* Parsers.expand_shortcuts(arg, is_bs).  The pattern is anchored at both
\* ends, so re.sub replaces the whole argument or nothing
expand_shortcuts(arg, is_bs) ==
    IF is_bs
    THEN (IF re_spnoff_match(arg).matched THEN expand(re_spnoff_match(arg))
          ELSE arg)
    ELSE arg

\* Lines 216-219 of Parsers.parse_row_args: split, normalise, drop [""]
SplitArgs(arguments_) ==
    LET args0 == StrSplit(arguments_, DEFAULT_SEPARATOR)
        args1 == [i \in DOMAIN args0 |-> StrJoin(<<" ">>, StrWords(args0[i]))]
    IN IF Len(args1) = 1 /\ args1[1] = <<>> THEN <<>> ELSE args1

\* GridConf.BOOTSTRAP['name'][0]: GridConf binds no attribute BOOTSTRAP, so
\* evaluating it raises AttributeError
GridConf_BOOTSTRAP_name ==
    IF "BOOTSTRAP" \in GridConfAttrs THEN Returned(PyStr(DEFAULT_PROFILE))
    ELSE Raised("AttributeError")

\* Parsers.parse_row_args(arguments, profile=None)
parse_row_args(arguments_, profile_) ==
    LET args == SplitArgs(arguments_)
        bs == GridConf_BOOTSTRAP_name
    IN IF bs.exc # "none" THEN Raised(bs.exc)
       ELSE LET is_bs == (profile_ = bs.val)
            IN Returned([i \in DOMAIN args |-> expand_shortcuts(args[i], is_bs)])

(***************************************************************************)
(* class GridCmd and class GridCmdInfo.                                    *)
(***************************************************************************)
ROW_OPEN == 0
ROW_CLOSE == 1
COL_OPEN == 2
COL_CLOSE == 3

\* GridCmdInfo(cmdtype): the object has no attribute 'style' until
\* populate_cmd_params sets one
GridCmdInfo(cmdtype) == [cmdtype |-> cmdtype, style |-> NoAttr]

\* GridCmd.get_name(cmdtype)
get_name(cmdtype) ==
    IF cmdtype = ROW_OPEN THEN Returned(<<"r","o","w">>)
    ELSE IF cmdtype = ROW_CLOSE THEN Returned(<<"e","n","d","r","o","w">>)
    ELSE IF cmdtype = COL_OPEN THEN Returned(<<"c","o","l">>)
    ELSE IF cmdtype = COL_CLOSE THEN Returned(<<"e","n","d","c","o","l">>)
    ELSE Raised("Exception")

\* "%s" % v
FormatS(v) ==
    IF v.t = "none" THEN <<"N","o","n","e">> ELSE v.s

\* Mutant: the parameters are given to COL_CLOSE instead of COL_OPEN
GridCmdInfo_str_close(cmd) ==
    LET is_col == (cmd.cmdtype = COL_CLOSE)
        params == IF is_col THEN <<"(">> \o FormatS(cmd.style) \o <<")">>
                  ELSE <<>>
        name == get_name(cmd.cmdtype)
    IN IF name.exc # "none" THEN name ELSE Returned(name.val \o params)

\* GridCmdInfo.__str__: getattr(self, 'style', '') is '' while style is unset
GridCmdInfo_str(cmd) ==
    LET is_col == (cmd.cmdtype = COL_OPEN)
        params == IF is_col THEN <<"(">> \o FormatS(cmd.style) \o <<")">>
                  ELSE <<>>
        name == get_name(cmd.cmdtype)
    IN IF name.exc # "none" THEN name ELSE Returned(name.val \o params)

(***************************************************************************)
(* GridPreprocessor.parse_markers, one action per line of the document.    *)
(***************************************************************************)
\* GridPreprocessor.get_conf(key)
get_conf(cfg, key) == IF key \in DOMAIN cfg THEN cfg[key][1] ELSE PyNone

\* list.pop()
Pop(stack) == SubSeq(stack, 1, Len(stack) - 1)
Top(stack) == stack[Len(stack)]

\* raise: the call ends; nothing it has written so far is undone
Raise(e) == /\ exc' = e
            /\ pc' = "raised"

\* run(): profile = self.get_conf('name'), then the call of parse_markers
\* and the initialisation of its locals
RunStart ==
    /\ pc = "run"
    /\ profile' = get_conf(config, "name")
    /\ row_stack' = <<>>
    /\ rows' = EmptyDict
    /\ cmds' = EmptyDict
    /\ r2c' = EmptyDict
    /\ line_num' = 0
    /\ pc' = "scan"
    /\ UNCHANGED <<lines, doc, run_no, config, style, exc, arguments, result>>

CurLine == lines[line_num + 1]
InLoop == pc = "scan" /\ line_num < Len(lines)

\* Mutant: the row is pushed under its one-based line number
ScanRowOpenOneBased ==
    /\ InLoop
    /\ row_open_match(CurLine).matched
    /\ LET stack1 == Append(row_stack, line_num + 1)
           args == row_open_match(CurLine).group1
           parsed == parse_row_args(args, profile)
       IN /\ row_stack' = stack1
          /\ IF parsed.exc # "none"
             THEN /\ Raise(parsed.exc)
                  /\ UNCHANGED <<rows, r2c, cmds, line_num>>
             ELSE /\ rows' = DictSet(rows, line_num, parsed.val)
                  /\ r2c' = DictSet(r2c, Top(stack1), <<line_num>>)
                  /\ cmds' = DictSet(cmds, line_num,
                                     <<GridCmdInfo(ROW_OPEN), GridCmdInfo(COL_OPEN)>>)
                  /\ line_num' = line_num + 1
                  /\ UNCHANGED <<pc, exc>>
    /\ UNCHANGED <<lines, doc, run_no, config, profile, style, arguments, result>>

\* Got  --row [params]-- which means <row [params]><col>
ScanRowOpen ==
    /\ InLoop
    /\ row_open_match(CurLine).matched
    /\ LET stack1 == Append(row_stack, line_num)
           args == row_open_match(CurLine).group1
           parsed == parse_row_args(args, profile)
       IN /\ row_stack' = stack1
          /\ IF parsed.exc # "none"
             THEN /\ Raise(parsed.exc)
                  /\ UNCHANGED <<rows, r2c, cmds, line_num>>
             ELSE /\ rows' = DictSet(rows, line_num, parsed.val)
                  /\ r2c' = DictSet(r2c, Top(stack1), <<line_num>>)
                  /\ cmds' = DictSet(cmds, line_num,
                                     <<GridCmdInfo(ROW_OPEN), GridCmdInfo(COL_OPEN)>>)
                  /\ line_num' = line_num + 1
                  /\ UNCHANGED <<pc, exc>>
    /\ UNCHANGED <<lines, doc, run_no, config, profile, style, arguments, result>>

\* Mutant: a close with no row open is passed over and the scan goes on
ScanRowCloseLenient ==
    /\ InLoop
    /\ ~row_open_match(CurLine).matched
    /\ row_close_match(CurLine)
    /\ cmds' = DictSet(cmds, line_num,
                       <<GridCmdInfo(COL_CLOSE), GridCmdInfo(ROW_CLOSE)>>)
    /\ row_stack' = IF row_stack = <<>> THEN <<>> ELSE Pop(row_stack)
    /\ line_num' = line_num + 1
    /\ UNCHANGED <<pc, exc>>
    /\ UNCHANGED <<lines, doc, run_no, config, profile, style, rows, r2c, arguments, result>>

\* Mutant: the marker line is blanked as soon as its commands are stored
ScanRowCloseBlanking ==
    /\ InLoop
    /\ ~row_open_match(CurLine).matched
    /\ row_close_match(CurLine)
    /\ cmds' = DictSet(cmds, line_num,
                       <<GridCmdInfo(COL_CLOSE), GridCmdInfo(ROW_CLOSE)>>)
    /\ lines' = [lines EXCEPT ![line_num + 1] = <<>>]
    /\ IF row_stack = <<>>
       THEN /\ Raise("IndexError")
            /\ UNCHANGED <<row_stack, line_num>>
       ELSE /\ row_stack' = Pop(row_stack)
            /\ line_num' = line_num + 1
            /\ UNCHANGED <<pc, exc>>
    /\ UNCHANGED <<doc, run_no, config, profile, style, rows, r2c, arguments, result>>

\* Got --end-- which means </col></row>
ScanRowClose ==
    /\ InLoop
    /\ ~row_open_match(CurLine).matched
    /\ row_close_match(CurLine)
    /\ cmds' = DictSet(cmds, line_num,
                       <<GridCmdInfo(COL_CLOSE), GridCmdInfo(ROW_CLOSE)>>)
    /\ IF row_stack = <<>>
       THEN /\ Raise("IndexError")
            /\ UNCHANGED <<row_stack, line_num>>
       ELSE /\ row_stack' = Pop(row_stack)
            /\ line_num' = line_num + 1
            /\ UNCHANGED <<pc, exc>>
    /\ UNCHANGED <<lines, doc, run_no, config, profile, style, rows, r2c, arguments, result>>

\* Got -- which means </col><col>
ScanColSep ==
    /\ InLoop
    /\ ~row_open_match(CurLine).matched
    /\ ~row_close_match(CurLine)
    /\ col_sep_match(CurLine)
    /\ IF row_stack = <<>>
       THEN /\ Raise("IndexError")
            /\ UNCHANGED <<r2c, cmds, line_num>>
       ELSE /\ r2c' = [r2c EXCEPT ![Top(row_stack)] = Append(@, line_num)]
            /\ cmds' = DictSet(cmds, line_num,
                               <<GridCmdInfo(COL_CLOSE), GridCmdInfo(COL_OPEN)>>)
            /\ line_num' = line_num + 1
            /\ UNCHANGED <<pc, exc>>
    /\ UNCHANGED <<lines, doc, run_no, config, profile, style, row_stack, rows, arguments, result>>

\* Mutant: the scan stays on a line that is no marker
ScanOtherStuck ==
    /\ InLoop
    /\ Classify(CurLine) = "NotAMarker"
    /\ line_num' = line_num
    /\ UNCHANGED <<lines, doc, run_no, config, pc, profile, style, row_stack, rows,
                   cmds, r2c, exc, arguments, result>>

\* Other lines are irrelevant
ScanOther ==
    /\ InLoop
    /\ Classify(CurLine) = "NotAMarker"
    /\ line_num' = line_num + 1
    /\ UNCHANGED <<lines, doc, run_no, config, pc, profile, style, row_stack, rows,
                   cmds, r2c, exc, arguments, result>>

\* The list the recovery loop appends to cmds[-1]: one object, a list
NestedList == [cmdtype |-> -1, style |-> NoAttr]

\* "Closing columns and rows if the stack is still not empty": cmds[-1] is a
\* dict lookup, a KeyError unless -1 is a key of cmds
RECURSIVE CloseOpenRows(_, _)
CloseOpenRows(c, stack) ==
    IF stack = <<>> THEN [exc |-> "none", cmds |-> c, row_stack |-> stack]
    ELSE IF -1 \notin DOMAIN c
         THEN [exc |-> "KeyError", cmds |-> c, row_stack |-> stack]
    ELSE CloseOpenRows([c EXCEPT ![-1] = Append(@, NestedList)], Pop(stack))

\* After the last line: the recovery loop, the return to run() and
\* style = self.get_conf('default_col_style')
ParseEnd ==
    /\ pc = "scan"
    /\ line_num = Len(lines)
    /\ LET r == CloseOpenRows(cmds, row_stack)
       IN /\ cmds' = r.cmds
          /\ row_stack' = r.row_stack
          /\ IF r.exc # "none"
             THEN /\ Raise(r.exc)
                  /\ UNCHANGED style
             ELSE /\ style' = get_conf(config, "default_col_style")
                  /\ pc' = "populate"
                  /\ UNCHANGED exc
    /\ UNCHANGED <<lines, doc, run_no, config, profile, line_num, rows, r2c, arguments, result>>

(***************************************************************************)
(* GridPreprocessor.populate_cmd_params and replace_markers.               *)
(***************************************************************************)
Min(S) == CHOOSE x \in S : \A y \in S : x <= y

\* The keys of a dict in the order "for k in d" visits them: the order of
\* insertion, which for the three mappings is the order of the lines
RECURSIVE KeysInOrder(_)
KeysInOrder(K) ==
    IF K = {} THEN <<>> ELSE <<Min(K)>> \o KeysInOrder(K \ {Min(K)})

\* Mutant: the first command of the line is taken, whatever its type
FirstCmd(cmdlist) == IF cmdlist = <<>> THEN 0 ELSE 1

\* The position of the first COL_OPEN command of a line's list, 0 if none
FirstColOpen(cmdlist) ==
    IF \E i \in DOMAIN cmdlist : cmdlist[i].cmdtype = COL_OPEN
    THEN Min({i \in DOMAIN cmdlist : cmdlist[i].cmdtype = COL_OPEN})
    ELSE 0

\* Mutant: the styles are not reversed, so pop() hands out the last one first
NoReverse(q) == q

\* styles[::-1]
Reverse(q) == [i \in 1..Len(q) |-> q[Len(q) + 1 - i]]

\* The loop "for col_line_num in r2c[row_line_num]": styles is the reversed
\* list, popped from its end for each column that has a COL_OPEN command
RECURSIVE PopulateCols(_, _, _, _)
PopulateCols(c, cols, styles, def_col_style) ==
    IF cols = <<>> THEN c
    ELSE LET col_line_num == Head(cols)
             i == FirstColOpen(c[col_line_num])
         IN IF i = 0
            THEN PopulateCols(c, Tail(cols), styles, def_col_style)
            ELSE PopulateCols(
                    [c EXCEPT ![col_line_num][i].style =
                        IF styles # <<>> THEN PyStr(Top(styles))
                        ELSE def_col_style],
                    Tail(cols),
                    IF styles # <<>> THEN Pop(styles) ELSE styles,
                    def_col_style)

\* The loop "for row_line_num in rows"
RECURSIVE PopulateRows(_, _, _, _, _)
PopulateRows(rowkeys, rows_, c, r2c_, def_col_style) ==
    IF rowkeys = <<>> THEN c
    ELSE PopulateRows(Tail(rowkeys), rows_,
                      PopulateCols(c, r2c_[Head(rowkeys)],
                                   Reverse(rows_[Head(rowkeys)]), def_col_style),
                      r2c_, def_col_style)

\* populate_cmd_params(rows, cmds, r2c, def_col_style)
populate_cmd_params(rows_, cmds_, r2c_, def_col_style) ==
    PopulateRows(KeysInOrder(DOMAIN rows_), rows_, cmds_, r2c_, def_col_style)

\* r2c[row_line_num] and cmds[col_line_num] are dict lookups
PopulateKeysPresent(rows_, cmds_, r2c_) ==
    \A r \in DOMAIN rows_ :
        /\ r \in DOMAIN r2c_
        /\ \A k \in DOMAIN r2c_[r] : r2c_[r][k] \in DOMAIN cmds_

Populate ==
    /\ pc = "populate"
    /\ IF PopulateKeysPresent(rows, cmds, r2c)
       THEN /\ cmds' = populate_cmd_params(rows, cmds, r2c, style)
            /\ pc' = "replace"
            /\ UNCHANGED exc
       ELSE /\ Raise("KeyError")
            /\ UNCHANGED cmds
    /\ UNCHANGED <<lines, doc, run_no, config, profile, style, line_num, row_stack,
                   rows, r2c, arguments, result>>

TagOpen == <<"\n","<","!","-","-","g","r","i","d",":">>
TagClose == <<"-","-",">">>

\* "\n<!--grid:%s-->" % ';'.join([str(command) for command in cmds[line_num]])
GridTag(cmdlist) ==
    TagOpen
    \o StrJoin(<<";">>, [i \in DOMAIN cmdlist |-> GridCmdInfo_str(cmdlist[i]).val])
    \o TagClose

\* Mutant: the line after the marker is the one written
ListSetNext(l, i, v) ==
    [l EXCEPT ![(IF i < 0 THEN i + Len(l) ELSE i) + 2] = v]

\* Mutant: the tag is appended to the marker line instead of replacing it
ListSetAppend(l, i, v) ==
    [l EXCEPT ![(IF i < 0 THEN i + Len(l) ELSE i) + 1] = @ \o v]

\* lines[i] = v for a Python list: a negative index counts from the end
ListSet(l, i, v) ==
    [l EXCEPT ![(IF i < 0 THEN i + Len(l) ELSE i) + 1] = v]
IndexOk(l, i) == -Len(l) <= i /\ i < Len(l)

\* The loop "for line_num in cmds" of replace_markers
RECURSIVE ReplaceLines(_, _, _)
ReplaceLines(l, keys, c) ==
    IF keys = <<>> THEN l
    ELSE ReplaceLines(ListSet(l, Head(keys), GridTag(c[Head(keys)])), Tail(keys), c)

\* Mutant: the loop runs over every line of the document, not over cmds
replace_every_line(l, c) ==
    [i \in DOMAIN l |-> GridTag(IF (i - 1) \in DOMAIN c THEN c[i - 1] ELSE <<>>)]

\* replace_markers(lines, cmds)
replace_markers(l, c) == ReplaceLines(l, KeysInOrder(DOMAIN c), c)

Replace ==
    /\ pc = "replace"
    /\ IF \E k \in DOMAIN cmds : \E i \in DOMAIN cmds[k] :
              GridCmdInfo_str(cmds[k][i]).exc # "none"
       THEN /\ Raise("Exception")
            /\ UNCHANGED lines
       ELSE IF \E k \in DOMAIN cmds : ~IndexOk(lines, k)
       THEN /\ Raise("IndexError")
            /\ UNCHANGED lines
       ELSE /\ lines' = replace_markers(lines, cmds)
            /\ pc' = "returned"
            /\ UNCHANGED exc
    /\ UNCHANGED <<doc, run_no, config, profile, style, line_num, row_stack,
                   rows, cmds, r2c, arguments, result>>

(***************************************************************************)
(* The documents and configurations the preprocessor is run on.            *)
(***************************************************************************)
L_row == <<"-","-","r","o","w","-","-">>
L_row_args == <<"-","-"," ","R","o","w"," ","4",":","1",","," ","4"," ","-","-">>
L_end == <<"-","-"," ","e","n","d"," ","-","-">>
L_sep == <<"-","-">>
L_text == <<"t","e","x","t">>
L_rule == <<"-","-","-">>
L_blank == <<>>
DocTexts == {L_row, L_row_args, L_end, L_sep, L_text, L_rule, L_blank}

Docs == UNION {[1..n -> DocTexts] : n \in 0..MaxDocLines}

\* The configuration GridExtension hands to the preprocessor: the one
\* GridConf.get() builds, then with an entry overridden or added
Description == "description"
Skeleton == <<"s","k","e","l","e","t","o","n">>
Span1 == <<"s","p","a","n","1">>
ConfDefault == [name |-> <<PyStr(DEFAULT_PROFILE), Description>>]
ConfSkeleton == [name |-> <<PyStr(Skeleton), Description>>]
ConfStyle == [name |-> <<PyStr(DEFAULT_PROFILE), Description>>,
              default_col_style |-> <<PyStr(Span1), Description>>]
Configs == {ConfDefault, ConfSkeleton, ConfStyle}

\* GridPreprocessor.run(lines) is about to be called
Init ==
    /\ doc \in Docs
    /\ lines = doc
    /\ config \in Configs
    /\ run_no = 1
    /\ pc = "run"
    /\ profile = PyNone
    /\ style = PyNone
    /\ line_num = 0
    /\ row_stack = <<>>
    /\ rows = EmptyDict
    /\ cmds = EmptyDict
    /\ r2c = EmptyDict
    /\ exc = "none"
    /\ arguments = <<>>
    /\ result = Returned(<<>>)

Next ==
    \/ RunStart
    \/ ScanRowOpen
    \/ ScanRowClose
    \/ ScanColSep
    \/ ScanOther
    \/ ParseEnd
    \/ Populate
    \/ Replace

Spec == Init /\ [][Next]_vars

\* The run once called: the interpreter executes the next statement as long
\* as there is one, so a step that can be taken is taken
InitFair == Init /\ config = ConfDefault
FairSpec == InitFair /\ [][Next]_vars /\ WF_vars(Next)

(***************************************************************************)
(* The configuration as GridExtension builds it: GridConf.get() for the    *)
(* default profile, then updated with the configs the caller supplies, and *)
(* handed to the preprocessor by extendMarkdown.                           *)
(***************************************************************************)
Gs960 == <<"9","6","0","g","s">>
NoSuch == <<"n","o","s","u","c","h">>
\* The keys of GridConf.PROFILES
PROFILES == {DEFAULT_PROFILE, Skeleton, Gs960}

\* GridConf.get(profile_name): the profile is looked up and then discarded;
\* the result holds the name alone.  An unknown name is a KeyError inside
\* the try, re-raised as Exception
GridConf_get(profile_name) ==
    LET str == FormatS(profile_name)
        name == [i \in DOMAIN str |-> Lower(str[i])]
    IN IF name \in PROFILES
       THEN Returned([name |-> <<PyStr(name), Description>>])
       ELSE Raised("Exception")

\* dict.update
DictUpdate(d, e) ==
    [k \in (DOMAIN d) \cup (DOMAIN e) |-> IF k \in DOMAIN e THEN e[k] ELSE d[k]]

\* The configs a caller gives makeExtension: none, or an entry for 'name'
ConfigArgs == <<EmptyDict,
                [name |-> <<PyStr(Skeleton), Description>>],
                [name |-> <<PyStr(NoSuch), Description>>]>>

\* GridExtension.__init__(configs) and extendMarkdown.  GridConf.get is
\* defined in the class body without self and without @staticmethod: called
\* on the class it is an unbound method under Python 2 (TypeError) and a
\* plain function under Python 3
GridExtension_init ==
    /\ pc = "extension"
    /\ \E unbound \in BOOLEAN : \E a \in DOMAIN ConfigArgs :
          LET got == IF unbound THEN Raised("TypeError")
                     ELSE GridConf_get(PyStr(DEFAULT_PROFILE))
          IN IF got.exc # "none"
             THEN /\ Raise(got.exc)
                  /\ UNCHANGED config
             ELSE /\ config' = DictUpdate(got.val, ConfigArgs[a])
                  /\ pc' = "run"
                  /\ UNCHANGED exc
    /\ UNCHANGED <<lines, doc, run_no, profile, style, line_num, row_stack,
                   rows, cmds, r2c, arguments, result>>

\* makeExtension(configs) is about to be called; the document comes later
InitExt ==
    /\ doc \in Docs
    /\ lines = doc
    /\ config = EmptyDict
    /\ run_no = 1
    /\ pc = "extension"
    /\ profile = PyNone
    /\ style = PyNone
    /\ line_num = 0
    /\ row_stack = <<>>
    /\ rows = EmptyDict
    /\ cmds = EmptyDict
    /\ r2c = EmptyDict
    /\ exc = "none"
    /\ arguments = <<>>
    /\ result = Returned(<<>>)

NextExt ==
    \/ GridExtension_init
    \/ RunStart
    \/ ScanRowOpen
    \/ ScanRowClose
    \/ ScanColSep
    \/ ScanOther
    \/ ParseEnd
    \/ Populate
    \/ Replace

ExtSpec == InitExt /\ [][NextExt]_vars

(***************************************************************************)
(* populate_cmd_params and replace_markers called on their own: they are   *)
(* static methods, and StageSpec starts them on the mappings parse_markers *)
(* documents as its result (lines 249-255) for a document whose rows are   *)
(* all closed.                                                             *)
(***************************************************************************)
S_a == <<"a">>
S_b == <<"b">>
StyleVals == {S_a, S_b}
StyleLists == UNION {[1..k -> StyleVals] : k \in 0..MaxStyles}
\* def_col_style: the parameter's default "", and what run() passes
DefStyles == {PyStr(<<>>), PyNone, PyStr(Span1)}

\* The styles a document declares, over all its rows
RECURSIVE Declared(_, _)
Declared(f, K) ==
    IF K = {} THEN 0 ELSE Len(f[Min(K)]) + Declared(f, K \ {Min(K)})
RowStyles(K) == {f \in [K -> StyleLists] : Declared(f, K) <= MaxStyles}

\* Rows as pairs <<open line, close line>>, nested or apart
Intervals(n) == {oc \in (0..(n - 1)) \X (0..(n - 1)) : oc[1] < oc[2]}
Apart(x, y) == x[2] < y[1] \/ y[2] < x[1]
Inside(x, y) == y[1] < x[1] /\ x[2] < y[2]
RowFamilies(n) ==
    {R \in SUBSET Intervals(n) :
        \A x \in R : \A y \in R :
            x # y => (Apart(x, y) \/ Inside(x, y) \/ Inside(y, x))}
Ends2(R) == {x[1] : x \in R} \cup {x[2] : x \in R}
Within(R, n) == {i \in 0..(n - 1) :
                    i \notin Ends2(R) /\ \E x \in R : x[1] < i /\ i < x[2]}
\* The innermost row around line i
OwnerOf(R, i) == Max({x[1] : x \in {y \in R : y[1] < i /\ i < y[2]}})

StageLines(n, R, S, plain) ==
    [i \in 1..n |->
        IF (i - 1) \in {x[1] : x \in R} THEN L_row
        ELSE IF (i - 1) \in {x[2] : x \in R} THEN L_end
        ELSE IF (i - 1) \in S THEN L_sep
        ELSE plain]

StageCmds(R, S) ==
    [k \in Ends2(R) \cup S |->
        IF k \in {x[1] : x \in R}
        THEN <<GridCmdInfo(ROW_OPEN), GridCmdInfo(COL_OPEN)>>
        ELSE IF k \in S
        THEN <<GridCmdInfo(COL_CLOSE), GridCmdInfo(COL_OPEN)>>
        ELSE <<GridCmdInfo(COL_CLOSE), GridCmdInfo(ROW_CLOSE)>>]

StageR2c(R, S) ==
    [r \in {x[1] : x \in R} |->
        <<r>> \o KeysInOrder({i \in S : OwnerOf(R, i) = r})]

InitStage ==
    \E n \in 1..MaxStageLines : \E R \in RowFamilies(n) :
    \E S \in SUBSET Within(R, n) : \E plain \in {L_text, L_rule} :
        /\ doc = StageLines(n, R, S, plain)
        /\ lines = doc
        /\ rows \in RowStyles({x[1] : x \in R})
        /\ cmds = StageCmds(R, S)
        /\ r2c = StageR2c(R, S)
        /\ style \in DefStyles
        /\ config = ConfDefault
        /\ run_no = 1
        /\ pc = "populate"
        /\ profile = PyNone
        /\ line_num = n
        /\ row_stack = <<>>
        /\ exc = "none"
        /\ arguments = <<>>
        /\ result = Returned(<<>>)

NextStage ==
    \/ Populate
    \/ Replace

StageSpec == InitStage /\ [][NextStage]_vars

(***************************************************************************)
(* The preprocessor run again on what a run has returned: the first run is *)
(* a whole run() or, for documents with rows, the two stages after the     *)
(* parse; every later run is a whole run() on the lines returned.          *)
(***************************************************************************)
InitIdem == InitFair \/ InitStage

\* run(lines) is called on the list the run before has returned
RunAgain ==
    /\ pc = "returned"
    /\ run_no < MaxRuns
    /\ run_no' = run_no + 1
    /\ doc' = lines
    /\ pc' = "run"
    /\ UNCHANGED <<lines, config, profile, style, line_num, row_stack,
                   rows, cmds, r2c, exc, arguments, result>>

NextIdem ==
    \/ RunStart
    \/ ScanRowOpen
    \/ ScanRowClose
    \/ ScanColSep
    \/ ScanOther
    \/ ParseEnd
    \/ Populate
    \/ Replace
    \/ RunAgain

IdemSpec == InitIdem /\ [][NextIdem]_vars

(***************************************************************************)
(* Parsers.parse_row_args called on its own.                               *)
(***************************************************************************)
ArgChars == {"4", "1", ":", ",", " "}
\* "4:1, 4, 3"
ArgsShorthand == <<"4",":","1",","," ","4",","," ","3">>
\* "span4 offset4, span4, span2"
ArgsVerbatim == <<"s","p","a","n","4"," ","o","f","f","s","e","t","4",","," ",
                  "s","p","a","n","4",","," ","s","p","a","n","2">>
ArgTexts == UNION {[1..k -> ArgChars] : k \in 0..MaxArgLen}
            \cup {ArgsShorthand, ArgsVerbatim}
Profiles == {PyNone, PyStr(DEFAULT_PROFILE), PyStr(Skeleton)}

InitArgs ==
    /\ arguments \in ArgTexts
    /\ profile \in Profiles
    /\ pc = "parse_row_args"
    /\ result = Returned(<<>>)
    /\ exc = "none"
    /\ doc = <<>>
    /\ lines = <<>>
    /\ config = ConfDefault
    /\ run_no = 0
    /\ style = PyNone
    /\ line_num = 0
    /\ row_stack = <<>>
    /\ rows = EmptyDict
    /\ cmds = EmptyDict
    /\ r2c = EmptyDict

CallParseRowArgs ==
    /\ pc = "parse_row_args"
    /\ result' = parse_row_args(arguments, profile)
    /\ exc' = result'.exc
    /\ pc' = IF result'.exc = "none" THEN "returned" ELSE "raised"
    /\ UNCHANGED <<lines, doc, run_no, config, profile, style, line_num, row_stack,
                   rows, cmds, r2c, arguments>>

NextArgs == CallParseRowArgs

ArgsSpec == InitArgs /\ [][NextArgs]_vars

(***************************************************************************)
(* What the claims speak of: the structure of the document as given, read  *)
(* by the transition table of the structural parser.                       *)
(***************************************************************************)
KindOf(d, i) == Classify(d[i + 1])
LineNums(d) == 0..(Len(d) - 1)

\* The rows open after the first n lines of d
RECURSIVE OpenRows(_, _)
OpenRows(d, n) ==
    IF n = 0 THEN <<>>
    ELSE LET before == OpenRows(d, n - 1)
         IN IF KindOf(d, n - 1) = "RowOpen" THEN Append(before, n - 1)
            ELSE IF KindOf(d, n - 1) = "RowClose" /\ before # <<>> THEN Pop(before)
            ELSE before

\* No row-close and no separator stands outside every row
NoUnderflow(d) ==
    \A i \in LineNums(d) :
        KindOf(d, i) \in {"RowClose", "ColSep"} => OpenRows(d, i) # <<>>
Balanced(d) == NoUnderflow(d) /\ OpenRows(d, Len(d)) = <<>>
NoMarkers(d) == \A i \in LineNums(d) : KindOf(d, i) = "NotAMarker"

RowOpenLines(d) == {i \in LineNums(d) : KindOf(d, i) = "RowOpen"}
LinesOfKind(d, k) == {i \in LineNums(d) : KindOf(d, i) = k}
\* The separators, and the close, of the row opened at line r
SepsOf(d, r) ==
    {i \in LineNums(d) : /\ KindOf(d, i) = "ColSep"
                          /\ OpenRows(d, i) # <<>>
                          /\ Top(OpenRows(d, i)) = r}
CloseOf(d, r) ==
    {i \in LineNums(d) : /\ KindOf(d, i) = "RowClose"
                          /\ OpenRows(d, i) # <<>>
                          /\ Top(OpenRows(d, i)) = r}

\* The number of commands of a type the mapping holds on the lines K
CountOn(K, cmdtype) ==
    Cardinality({ki \in UNION {{k} \X DOMAIN cmds[k] : k \in K \cap DOMAIN cmds} :
                    cmds[ki[1]][ki[2]].cmdtype = cmdtype})
CountCmd(cmdtype) == CountOn(DOMAIN cmds, cmdtype)
CmdTypes(cmdlist) == [i \in DOMAIN cmdlist |-> cmdlist[i].cmdtype]

ParseReturned == pc \in {"populate", "replace", "returned"}
Ended == pc \in {"populate", "replace", "returned", "raised"}

IsPrefix(p, q) == Len(p) <= Len(q) /\ SubSeq(q, 1, Len(p)) = p

(***************************************************************************)
(* The claims.                                                             *)
(***************************************************************************)

\* C1: for every document (here: with no close or separator outside a row)
\* parse_markers finishes, and the command mapping then holds as many
\* RowOpen commands as RowClose commands.
C1_RowCommandsBalanced ==
    NoUnderflow(doc) =>
        /\ pc # "raised"
        /\ ParseReturned => CountCmd(ROW_OPEN) = CountCmd(ROW_CLOSE)

\* C2: when the last line has been scanned with k >= 1 rows still open,
\* parse_markers does not raise: it returns with the stack empty and with k
\* synthesized [ColClose, RowClose] pairs added to the command mapping.
C2_OpenRowsClosedAtEnd ==
    (NoUnderflow(doc) /\ OpenRows(doc, Len(doc)) # <<>>) =>
        /\ pc # "raised"
        /\ ParseReturned =>
             /\ row_stack = <<>>
             /\ CountCmd(ROW_CLOSE) = Cardinality(LinesOfKind(doc, "RowClose"))
                                      + Len(OpenRows(doc, Len(doc)))
             /\ CountCmd(COL_CLOSE) = Cardinality(LinesOfKind(doc, "RowClose"))
                                      + Cardinality(LinesOfKind(doc, "ColSep"))
                                      + Len(OpenRows(doc, Len(doc)))

\* C3: for every row of every document, one ColOpen is emitted at its
\* row-open line and one per separator of the row, and as many ColClose:
\* one per separator and one at its close.
C3_ColumnCommandsBalanced ==
    (NoUnderflow(doc) /\ Ended) =>
        \A r \in RowOpenLines(doc) :
            /\ CountOn({r} \cup SepsOf(doc, r), COL_OPEN)
                   = 1 + Cardinality(SepsOf(doc, r))
            /\ CloseOf(doc, r) # {} =>
                   CountOn(SepsOf(doc, r) \cup CloseOf(doc, r), COL_CLOSE)
                       = Cardinality(SepsOf(doc, r)) + 1

\* C4: after populate_cmd_params, for every row and every position i of its
\* RowColumnMembership, the one ColOpen command on the i-th column line
\* carries the row's i-th declared style when the row declared at least i
\* styles and the default style otherwise; every ColOpen command has a style
\* before replace_markers runs.
C4_StylesByPosition ==
    pc \in {"replace", "returned"} =>
        /\ \A r \in DOMAIN rows : \A i \in DOMAIN r2c[r] :
               LET cl == cmds[r2c[r][i]]
               IN /\ Cardinality({j \in DOMAIN cl : cl[j].cmdtype = COL_OPEN}) = 1
                  /\ \A j \in DOMAIN cl :
                        cl[j].cmdtype = COL_OPEN =>
                            cl[j].style = IF i <= Len(rows[r])
                                          THEN PyStr(rows[r][i]) ELSE style
        /\ \A k \in DOMAIN cmds : \A j \in DOMAIN cmds[k] :
               /\ cmds[k][j].cmdtype = COL_OPEN => cmds[k][j].style # NoAttr
               /\ cmds[k][j].cmdtype # COL_OPEN => cmds[k][j].style = NoAttr

\* C4's case: a row with two declared styles and three columns, styled
C4_TwoStylesThreeColumns ==
    /\ pc = "replace"
    /\ style = PyStr(Span1)
    /\ \E r \in DOMAIN rows :
          /\ Len(rows[r]) = 2 /\ rows[r][1] # rows[r][2]
          /\ Len(r2c[r]) = 3
          /\ cmds[r2c[r][1]][2].style = PyStr(rows[r][1])
          /\ cmds[r2c[r][2]][2].style = PyStr(rows[r][2])
          /\ cmds[r2c[r][3]][2].style = style

\* C5: the run on a document without any marker line returns the document
\* unchanged: the same number of lines, every line its input text.
C5_NoMarkersIdentity ==
    NoMarkers(doc) =>
        /\ pc # "raised"
        /\ pc = "returned" => lines = doc

\* C5's case: a run over two or more lines, none a marker, has returned
C5_NoMarkersReturned ==
    /\ pc = "returned"
    /\ Len(doc) >= 2
    /\ NoMarkers(doc)
    /\ \E i \in DOMAIN doc : doc[i] = L_rule

\* C6: every line classified NotAMarker is no key of the command mapping
\* and has exactly its input text, whatever the stage; a line whose text has
\* changed is a key of the command mapping.
C6_OtherLinesUntouched ==
    /\ Len(lines) = Len(doc)
    /\ \A i \in DOMAIN doc :
          /\ Classify(doc[i]) = "NotAMarker" =>
                 ((i - 1) \notin DOMAIN cmds /\ lines[i] = doc[i])
          /\ lines[i] # doc[i] => (i - 1) \in DOMAIN cmds

\* C6's case: replace_markers has rewritten a marker line and left a line
\* that is no marker as it was
C6_RewrittenBesideUntouched ==
    /\ pc = "returned"
    /\ \E i \in DOMAIN doc : \E j \in DOMAIN doc :
          /\ Classify(doc[i]) = "NotAMarker" /\ lines[i] = doc[i]
          /\ lines[j] # doc[j]

\* C7: for every balanced document the run is total and returns as many
\* lines as it was given, each marker line replaced in its own slot.
C7_BalancedRunReturns ==
    Balanced(doc) =>
        /\ pc # "raised"
        /\ pc = "returned" =>
             /\ Len(lines) = Len(doc)
             /\ \A i \in LineNums(doc) :
                   KindOf(doc, i) # "NotAMarker" =>
                       (i \in DOMAIN cmds /\ IsPrefix(TagOpen, lines[i + 1]))

\* C8: parse_row_args returns the comma-separated tokens in order, trimmed
\* and with whitespace collapsed; under the bootstrap profile "4:1, 4, 3"
\* gives ["span4 offset1", "span4", "span3"], and under another profile or
\* none "span4 offset4, span4, span2" gives its three tokens verbatim.
C8_ParseRowArgsExamples ==
    pc # "parse_row_args" =>
        /\ (arguments = ArgsShorthand /\ profile = PyStr(DEFAULT_PROFILE)) =>
               result = Returned(
                   << <<"s","p","a","n","4"," ","o","f","f","s","e","t","1">>,
                      <<"s","p","a","n","4">>,
                      <<"s","p","a","n","3">> >>)
        /\ (arguments = ArgsVerbatim /\ profile # PyStr(DEFAULT_PROFILE)) =>
               result = Returned(
                   << <<"s","p","a","n","4"," ","o","f","f","s","e","t","4">>,
                      <<"s","p","a","n","4">>,
                      <<"s","p","a","n","2">> >>)

TagItem(cmd) ==
    CASE cmd.cmdtype = ROW_OPEN -> <<"r","o","w">>
      [] cmd.cmdtype = ROW_CLOSE -> <<"e","n","d","r","o","w">>
      [] cmd.cmdtype = COL_CLOSE -> <<"e","n","d","c","o","l">>
      [] cmd.cmdtype = COL_OPEN ->
            <<"c","o","l","(">>
            \o (IF cmd.style.t = "none" THEN <<"N","o","n","e">> ELSE cmd.style.s)
            \o <<")">>
\* The items of a line's commands from the i-th on, each after a ';'
RECURSIVE TagRest(_, _)
TagRest(cmdlist, i) ==
    IF i > Len(cmdlist) THEN <<>>
    ELSE <<";">> \o TagItem(cmdlist[i]) \o TagRest(cmdlist, i + 1)

\* C10: every line replace_markers has rewritten is a line break, then
\* '<!--grid:', then the line's commands in their stored order joined by
\* ';', each 'row', 'endrow', 'endcol' or 'col(<style>)' with the style the
\* ColOpen was assigned (as Python prints it), then '-->'.
C10_TagForm ==
    pc = "returned" =>
        \A k \in DOMAIN cmds :
            /\ cmds[k] # <<>>
            /\ lines[k + 1] =
                  <<"\n","<","!","-","-","g","r","i","d",":">>
                  \o TagItem(cmds[k][1]) \o TagRest(cmds[k], 2)
                  \o <<"-","-",">">>

\* C10's case: a rewritten separator line of a styled row
C10_SeparatorTagWritten ==
    /\ pc = "returned"
    /\ \E k \in DOMAIN cmds :
          /\ CmdTypes(cmds[k]) = <<COL_CLOSE, COL_OPEN>>
          /\ cmds[k][2].style = PyStr(S_b)
          /\ lines[k + 1] = <<"\n","<","!","-","-","g","r","i","d",":",
                              "e","n","d","c","o","l",";","c","o","l","(","b",")",
                              "-","-",">">>

\* C11: a row-open argument list holding a token that is no valid shorthand
\* does not make the parse fail: parse_row_args returns normally, whatever
\* the profile, with as many tokens as it split and that token as it was.
C11_BadTokenPassedThrough ==
    pc # "parse_row_args" =>
        LET args == SplitArgs(arguments)
        IN (\E i \in DOMAIN args : ~re_spnoff_match(args[i]).matched) =>
               /\ result.exc = "none"
               /\ Len(result.val) = Len(args)
               /\ \A i \in DOMAIN args :
                     ~re_spnoff_match(args[i]).matched => result.val[i] = args[i]

\* The line, if any, where a row-close or a separator is met before any
\* row-open: the scan reaches it with the stack empty
UnderflowLines(d) ==
    {i \in LineNums(d) :
        /\ KindOf(d, i) \in {"RowClose", "ColSep"}
        /\ \A j \in 0..(i - 1) : KindOf(d, j) = "NotAMarker"}

\* C12: a row-close or separator met with the stack empty ends the parse in
\* a failure at that line: no later line is processed, no mappings are
\* returned, and the stack is never popped below empty.
C12_UnderflowEndsParse ==
    \A i \in UnderflowLines(doc) :
        /\ line_num <= i
        /\ ~ParseReturned
        /\ row_stack = <<>>
        /\ pc = "raised" => (line_num = i /\ exc = "IndexError")

\* C12's case: the scan has met a row-close outside every row on the second
\* of three lines and has failed there
C12_CloseOutsideRowRaised ==
    /\ pc = "raised"
    /\ exc = "IndexError"
    /\ Len(doc) = 3
    /\ KindOf(doc, 1) = "RowClose"
    /\ line_num = 1
    /\ row_stack = <<>>

\* C13: a profile name that is none of the known profiles is a failure at
\* configuration time: whatever configs the extension was given, no run of
\* the preprocessor is started, or goes on, with an unknown profile name.
C13_RunsOnlyKnownProfiles ==
    pc \in {"run", "scan", "populate", "replace", "returned"} =>
        /\ "name" \in DOMAIN config
        /\ get_conf(config, "name").s \in PROFILES

\* The command types of the lines from k on, in increasing line order
RECURSIVE StreamFrom(_)
StreamFrom(k) ==
    IF k >= Len(doc) THEN <<>>
    ELSE (IF k \in DOMAIN cmds THEN CmdTypes(cmds[k]) ELSE <<>>) \o StreamFrom(k + 1)

\* A command stream read with the rows and columns open so far in open:
\* a column opens in an open row, a row at top level or in an open column,
\* a close closes what was opened last, and nothing stays open
RECURSIVE WellNested(_, _)
WellNested(s, open) ==
    IF s = <<>> THEN open = <<>>
    ELSE IF Head(s) = ROW_OPEN
         THEN /\ (open = <<>> \/ Top(open) = "col")
              /\ WellNested(Tail(s), Append(open, "row"))
    ELSE IF Head(s) = COL_OPEN
         THEN /\ open # <<>>
              /\ Top(open) = "row"
              /\ WellNested(Tail(s), Append(open, "col"))
    ELSE IF Head(s) = COL_CLOSE
         THEN /\ open # <<>>
              /\ Top(open) = "col"
              /\ WellNested(Tail(s), Pop(open))
    ELSE IF Head(s) = ROW_CLOSE
         THEN /\ open # <<>>
              /\ Top(open) = "row"
              /\ WellNested(Tail(s), Pop(open))
    ELSE FALSE

C15_MembershipByRow ==
    (NoUnderflow(doc) /\ Ended) =>
        /\ DOMAIN r2c = RowOpenLines(doc)
        /\ \A r \in RowOpenLines(doc) :
              r2c[r] = <<r>> \o KeysInOrder(SepsOf(doc, r))
        /\ \A i \in LinesOfKind(doc, "ColSep") :
              Cardinality({r \in DOMAIN r2c :
                              \E j \in DOMAIN r2c[r] : r2c[r][j] = i}) = 1

\* C16: at every point of the scan the stack holds the line numbers of the
\* row-open lines seen so far and not yet closed, increasing from bottom to
\* top: a row-open line pushes its own number (also when the scan then ends
\* at that line), a line that is no marker leaves the stack as it is, and
\* the depth is the row-opens seen minus the row-closes seen.
C16_StackIsOpenRows ==
    /\ pc = "scan" =>
          /\ row_stack = OpenRows(doc, line_num)
          /\ Len(row_stack) =
                Cardinality({i \in 0..(line_num - 1) : KindOf(doc, i) = "RowOpen"})
                - Cardinality({i \in 0..(line_num - 1) : KindOf(doc, i) = "RowClose"})
    /\ (pc = "raised" /\ exc = "AttributeError") =>
          row_stack = OpenRows(doc, line_num + 1)
    /\ (pc = "raised" /\ exc = "IndexError") =>
          row_stack = OpenRows(doc, line_num)
    /\ \A i \in DOMAIN row_stack : \A j \in DOMAIN row_stack :
          i < j => row_stack[i] < row_stack[j]

\* C16's case: after a line that is no marker, the row-open line on the
\* second line has pushed its own line number
C16_RowOpenPushed ==
    /\ pc = "raised"
    /\ line_num = 1
    /\ KindOf(doc, 0) = "NotAMarker"
    /\ KindOf(doc, 1) = "RowOpen"
    /\ row_stack = <<1>>

\* C17: populate_cmd_params changes nothing but the style of ColOpen
\* commands: the row styles, the row-column membership, the key set of the
\* command mapping, and the type and order of the commands on every line
\* are after the call what they were before it, and a command that is no
\* ColOpen is left as it was.
C17_PopulateFrame ==
    [][pc = "populate" =>
          /\ rows' = rows
          /\ r2c' = r2c
          /\ DOMAIN cmds' = DOMAIN cmds
          /\ \A k \in DOMAIN cmds :
                /\ CmdTypes(cmds'[k]) = CmdTypes(cmds[k])
                /\ \A j \in DOMAIN cmds[k] :
                      cmds[k][j].cmdtype # COL_OPEN => cmds'[k][j] = cmds[k][j]]_vars

\* C17's case: populate_cmd_params has styled the column of a row-open line
\* and of a separator line, beside commands of the three other types
C17_StyledBesideOthers ==
    /\ pc = "replace"
    /\ \E k \in DOMAIN cmds : \E m \in DOMAIN cmds : \E n \in DOMAIN cmds :
          /\ cmds[k][1] = GridCmdInfo(ROW_OPEN)
          /\ cmds[k][2].cmdtype = COL_OPEN /\ cmds[k][2].style # NoAttr
          /\ cmds[m][1] = GridCmdInfo(COL_CLOSE)
          /\ cmds[m][2].cmdtype = COL_OPEN /\ cmds[m][2].style # NoAttr
          /\ cmds[n] = <<GridCmdInfo(COL_CLOSE), GridCmdInfo(ROW_CLOSE)>>

\* C18: every parse pass over a finite document terminates: each step of
\* the scan ends the pass or moves on by exactly one line, never past the
\* last, and a terminal state, a returned result or a failure, is reached.
C18_ParseTerminates ==
    /\ [][(pc = "scan" /\ pc' = "scan") =>
             (line_num' = line_num + 1 /\ line_num' <= Len(lines))]_vars
    /\ <>Ended

\* C18's case: the scan has taken one step for each of three lines and
\* parse_markers has returned
C18_ScanReachedEnd ==
    /\ pc = "populate"
    /\ Len(doc) = 3
    /\ line_num = 3

\* C19: whenever a run fails, the line list is as it was on entry: no
\* marker line has been rewritten, since replace_markers alone writes to
\* lines and starts only after parse_markers and populate_cmd_params have
\* completed.
C19_FailureLeavesLines ==
    /\ pc = "raised" => lines = doc
    /\ pc \in {"run", "scan", "populate", "replace"} => lines = doc

\* C19's case: the parse has failed at a marker line after storing the
\* line's commands, and the line still has its text
C19_FailedWithCommandsStored ==
    /\ pc = "raised"
    /\ Len(doc) >= 2
    /\ \E k \in DOMAIN cmds : KindOf(doc, k) = "RowClose" /\ lines[k + 1] = doc[k + 1]

\* C20: the run is idempotent on its own output: every line of what a run
\* has returned, the rewritten tag lines included, is classified NotAMarker
\* by the three marker patterns, so a run over it does not fail and returns
\* it unchanged.
C20_SecondRunIdentity ==
    run_no >= 2 =>
        /\ NoMarkers(doc)
        /\ pc # "raised"
        /\ DOMAIN cmds = {} \/ pc = "run"
        /\ pc = "returned" => lines = doc

\* C20's case: a second run over lines of which one is a rewritten tag line
\* has returned
C20_TagLinesRunAgain ==
    /\ run_no = 2
    /\ pc = "returned"
    /\ \E i \in DOMAIN doc : IsPrefix(TagOpen, doc[i])
    /\ lines = doc

====
